---- MODULE Spec2Model ----
(***************************************************************************)
(* A model of the ARPA2 Reservoir object layer: the DataSyncLDAP nodes of  *)
(* arpa2/servicedit/ldap.py with their weak child caches, the Index /      *)
(* Domain / Collection / Resource nodes of arpa2/reservoir/node.py with    *)
(* the Index path walk, and the transaction manager that the               *)
(* specification describes.                                                *)
(*                                                                         *)
(* Reading conventions for the source.  The node classes of node.py are    *)
(* written against base-class names that ldap.py spells differently        *)
(* (appinst, get_vars, add_structure, the three-argument constructor, the  *)
(* connection handle); these are read as the member of the same role.      *)
(* Everything a statement does to the state is kept as written: which key  *)
(* a cache is read and written under, which variable is passed on, which   *)
(* table an entry is stored in, which assertion guards a step, and when    *)
(* the backend is contacted.  Assertions are active.                       *)
(* Inside the body of a method of ldap.py a name that is not bound where   *)
(* it is used (a local, an attribute of self) raises as Python raises it.  *)
(* The one exception is load_vars: its loops over atnm_lst and atnm_one    *)
(* (ldap.py:328-331) are read as loops over self.atnm_lst and              *)
(* self.atnm_one, because every node of node.py loads through them; read   *)
(* as written they raise NameError and no node is ever loaded.             *)
(***************************************************************************)
EXTENDS Integers, Sequences, FiniteSets, TLC

\* ------------------------------------------------------------------ bounds

\* Instances other than the Domain that can be alive at the same time.
MaxInst == 2
\* Longest list of values a node holds in memory for one attribute.
MaxList == 2

\* ------------------------------------------------------------- value sets

\* Python's None, for names, identifiers, attribute values and results.
None == ""

\* Two collection identifiers (lowercase UUID strings, node.py:15).
UuidX == "0a"
UuidY == "0b"
Uuids == {UuidX, UuidY}

\* Index names and path steps (node.py:14, step_re).
Names == {"a", "b", "z"}

\* The user domain whose base node anchors the tree.
UserDomain == "example.com"

\* The user domains the application is switched between
\* (simple-setup.py:17-20).
Domains == {UserDomain, "orvelte.nep"}

\* Threads that look children up at the same time.
MaxThreads == 2
Threads == 1 .. MaxThreads

\* uuid_re.match (node.py:15); matching None is a TypeError in Python,
\* which the callers below treat apart.
uuid_re(s) == s \in Uuids

\* step_re.match (node.py:14): one or more printable characters.
step_re(s) == s # None /\ Len(s) > 0

\* ------------------------------------------------------------- addresses

\* A location is the string the backend is addressed with: components
\* attribute=value joined by ',', nearest first.
StartsWith(s, prefix) ==
    /\ Len(s) >= Len(prefix)
    /\ SubSeq(s, 1, Len(prefix)) = prefix

\* AppSyncLDAP.base_location
base_location(userdomain) ==
    "associatedDomain=" \o userdomain \o ",ou=Reservoir,o=arpa2.net,ou=InternetWide"

BaseDN == base_location(UserDomain)

\* DataSyncLDAP.child_location
child_location(location, varnm, value) == varnm \o "=" \o value \o "," \o location

\* Domain.collection_dn
collection_dn(coll_uuid) == "resins=" \o coll_uuid \o "," \o BaseDN

\* cldn_re.match (node.py:17)
cldn_re(dn) ==
    \E u \in Uuids : StartsWith(dn, "resins=" \o u \o ",associatedDomain=")

\* The identifier cldn_re captures (node.py:368).
cldn_group(dn) ==
    CHOOSE u \in Uuids : StartsWith(dn, "resins=" \o u \o ",associatedDomain=")

\* rsdn_re.match (node.py:18)
rsdn_re(dn) ==
    \E d \in Names, u \in Uuids :
        StartsWith(dn, "documentIdentifier=" \o d \o ",resins=" \o u \o ",associatedDomain=")

\* --------------------------------------------------------- index entries

\* A stored form that always writes the separator.
EncodeTrailing(uuid, name) == uuid \o " " \o name

\* The stored form of an index entry (node.py:141-144).
Encode(uuid, name) == IF name = None THEN uuid ELSE uuid \o " " \o name

EntryStrings == { Encode(u, n) : u \in Uuids, n \in Names \cup {None} }

\* ----------------------------------------------------------------- state

\* No instance.
NoNode == -1

Ids   == 0 .. MaxInst
Root  == 0

VARIABLES
    nodes,      \* Ids -> the instance in that slot (cls = "free": none)
    held,       \* the instances a caller holds a strong reference to
    children,   \* Ids -> the weak child cache: a set of <<key, id>>
    pending,    \* the transaction's pending sequence of instances
    txnBase,    \* the backend as it was when the transaction became active
    backend,    \* location -> the stored entry
    calls,      \* what the last operation called, in order
    args,       \* the arguments of the last walk
    codec,      \* an index entry on its way through encoding and decoding
    app,        \* the application object: current user domain, base-node cache
    lookups,    \* Threads -> where that thread is in a child lookup
    ret         \* the last operation and its result

vars ==
    <<nodes, held, children, pending, txnBase, backend, calls, args, codec, app, lookups, ret>>

\* The arguments of walk; NoArgs after any other operation.
Args(start, path, res_name, maybe_res) ==
    [start |-> start, path |-> path, res_name |-> res_name, maybe_res |-> maybe_res]
NoArgs == Args(NoNode, <<>>, None, FALSE)

\* The arguments of a call on a node, with the node's created and loaded
\* flags and its attribute table as they were when the call was made.
DataArgs(i, name, oldval, newval, attrs_dict) ==
    [start |-> i, name |-> name, oldval |-> oldval, newval |-> newval,
     attrs |-> attrs_dict, was |-> nodes[i].created, wasLoaded |-> nodes[i].loaded,
     before |-> nodes[i].attrvals]

\* An index entry on its way: the identifier and name given, the stored
\* form once encoded, and what parsing the stored form gave.
Codec(stage, uuid, name, entry, matched, groups) ==
    [stage |-> stage, uuid |-> uuid, name |-> name, entry |-> entry,
     matched |-> matched, groups |-> groups]
NoCodec == Codec("none", None, None, None, FALSE, <<>>)

\* The application object (AppSyncLDAP.__init__, ldap.py:139-154): the
\* current user domain and the weak cache of base nodes, a set of
\* <<user domain, id>>.
App(userdomain, dom2obj) == [userdomain |-> userdomain, dom2obj |-> dom2obj]

\* A thread's position in child_node: idle, between the cache read and
\* the construction (construct), or returned with an instance (done).
Lookup(pc, p, varnm, value, cls, obj) ==
    [pc |-> pc, p |-> p, varnm |-> varnm, value |-> value, cls |-> cls, obj |-> obj]
Idle == Lookup("idle", NoNode, None, None, None, NoNode)

\* No pending command on a node.
NoCmd == [kind |-> "none", attr |-> None, old |-> None, new |-> None]

\* The attribute table of a node that holds nothing: self.attrvals = { }
NoAttrs ==
    [resins |-> None, collectionRef |-> <<>>, cn |-> <<>>,
     objectClass |-> <<>>, resourceClassUUID |-> None]

FreeNode ==
    [cls |-> "free", location |-> None, uuid |-> None,
     hasIndex |-> FALSE, index |-> {}, dict |-> {},
     attrvals |-> NoAttrs, loaded |-> FALSE, created |-> FALSE, cmd |-> NoCmd]

\* DataSyncLDAP.__init__, with what the constructors of node.py add:
\* Index.__init__ leaves uuid and index None, Collection.__init__ sets
\* uuid to the identifier in its DN.
NewNode(cls, location) ==
    [FreeNode EXCEPT !.cls = cls, !.location = location,
        !.uuid = IF cls = "Collection" THEN cldn_group(location) ELSE None]

\* The constructor's assertions on the DN (node.py:366-367, 481-482).
CtorAccepts(cls, location) ==
    CASE cls = "Collection" -> cldn_re(location)
      [] cls = "Resource"   -> rsdn_re(location)
      [] OTHER              -> TRUE

IsIndex(n) == n.cls \in {"Domain", "Collection"}

Range(s) == { s[i] : i \in 1 .. Len(s) }

\* Result records of an operation.
Ret(op, kind, node, err) == [op |-> op, kind |-> kind, node |-> node, err |-> err]

\* One call an operation makes: a node's sync, sync(reverse), clear_cache,
\* or a backend primitive issued for a node, and whether it succeeded.
Call(op, node, ok) == [op |-> op, node |-> node, ok |-> ok]

\* ------------------------------------------------------------ weak cache

\* WeakValueDictionary.get: the instance stored under key, or NoNode.
CacheGet(cache, key) ==
    IF \E e \in cache : e[1] = key
    THEN (CHOOSE e \in cache : e[1] = key)[2]
    ELSE NoNode

\* WeakValueDictionary.__setitem__
CachePut(cache, key, id) == { e \in cache : e[1] # key } \cup { <<key, id>> }

\* The instances something holds strongly: callers and the transaction.
Strong(h, p) == h \cup Range(p)

\* A cache that keeps every instance it was handed.
ReclaimNever(ns, h, p) == ns

\* Reference counting: an instance nothing holds strongly is reclaimed at
\* once, and its weak cache entries disappear with it.
Reclaim(ns, h, p) ==
    [i \in Ids |-> IF i \in Strong(h, p) THEN ns[i] ELSE FreeNode]

Sweep(ch, h, p) ==
    [i \in Ids |->
        IF i \in Strong(h, p)
        THEN { e \in ch[i] : e[2] \in Strong(h, p) }
        ELSE {}]

\* The key child_node reads the cache under (ldap.py:414-415): the full
\* child location.
child_lookup_key(location, varnm, value) == child_location(location, varnm, value)

\* The key child_node writes the cache under (ldap.py:418):
\* varnm + '=' + value, the first component alone.
child_store_key(location, varnm, value) == varnm \o "=" \o value

\* ---------------------------------------------------------------- Init

BLocs == { BaseDN } \cup { collection_dn(u) : u \in Uuids }

\* The directory as the program finds it: the Domain entry and the two
\* collections, collection X carrying the index entry b -> Y.
InitBackend ==
    [l \in BLocs |->
        [resins |-> IF l = BaseDN THEN None ELSE cldn_group(l),
         collectionRef |-> IF l = collection_dn(UuidX) THEN {Encode(UuidY, "b")} ELSE {},
         cn |-> {}]]

\* The program after construction: the Domain instance alone, nothing
\* pending, nothing called.
InitNodes ==
    /\ nodes = [i \in Ids |-> IF i = Root THEN NewNode("Domain", BaseDN) ELSE FreeNode]
    /\ held = {Root}
    /\ children = [i \in Ids |-> {}]
    /\ pending = <<>>
    /\ calls = <<>>
    /\ args = NoArgs
    /\ app = App(UserDomain, {<<UserDomain, Root>>})
    /\ lookups = [t \in Threads |-> Idle]
    /\ ret = Ret("init", "ok", NoNode, None)

InitRest ==
    /\ InitNodes
    /\ backend = InitBackend
    /\ txnBase = backend

Init == InitRest /\ codec = NoCodec

\* ------------------------------------------------------------ child_node

\* The lowest free slot of a node table (the table must have one).
FreshOf(ns) ==
    CHOOSE i \in Ids : ns[i].cls = "free" /\ \A j \in Ids : ns[j].cls = "free" => i <= j

\* DataSyncLDAP.child_node (ldap.py:402-421) of parent p on a node table
\* and its caches: the instance found or constructed.  full says the
\* model has no slot left for the instance to construct.
child_node(ns, ch, p, varnm, value, cls) ==
    LET loc == child_location(ns[p].location, varnm, value)
        obj == CacheGet(ch[p], child_lookup_key(ns[p].location, varnm, value))
        bad == [ok |-> FALSE, full |-> FALSE, id |-> NoNode, ns |-> ns, ch |-> ch,
                err |-> "AssertionError"]
    IN IF obj = NoNode
       THEN IF ~CtorAccepts(cls, loc) THEN bad
            ELSE IF \A i \in Ids : ns[i].cls # "free" THEN [bad EXCEPT !.full = TRUE]
            ELSE LET f == FreshOf(ns)
                 IN [ok |-> TRUE, full |-> FALSE, id |-> f, err |-> None,
                     ns |-> [ns EXCEPT ![f] = NewNode(cls, loc)],
                     ch |-> [ch EXCEPT ![p] =
                               CachePut(@, child_store_key(ns[p].location, varnm, value), f)]]
       ELSE IF ns[obj].cls = cls
            THEN [ok |-> TRUE, full |-> FALSE, id |-> obj, ns |-> ns, ch |-> ch, err |-> None]
            ELSE bad

\* A caller looks a child up and keeps the result.
ChildNode(p, varnm, value, cls) ==
    /\ p \in held
    /\ LET r == child_node(nodes, children, p, varnm, value, cls)
       IN /\ ~r.full
          /\ nodes' = r.ns
          /\ children' = r.ch
          /\ held' = IF r.ok THEN held \cup {r.id} ELSE held
          /\ ret' = Ret("child_node", IF r.ok THEN "node" ELSE "error", r.id, r.err)
    /\ calls' = <<>>
    /\ args' = NoArgs
    /\ UNCHANGED <<codec, app, lookups>>
    /\ UNCHANGED <<pending, txnBase, backend>>

\* The base-node cache once the instances nothing holds are reclaimed.
SweepApp(a, h, p) == [a EXCEPT !.dom2obj = { e \in @ : e[2] \in Strong(h, p) }]

\* A caller drops its reference to an instance (one no thread is in the
\* middle of a lookup on, nor has just been handed).
Release(i) ==
    /\ i \in held /\ i # Root
    /\ \A t \in Threads : lookups[t].p # i /\ lookups[t].obj # i
    /\ held' = held \ {i}
    /\ nodes' = Reclaim(nodes, held', pending)
    /\ children' = Sweep(children, held', pending)
    /\ app' = SweepApp(app, held', pending)
    /\ calls' = <<>>
    /\ args' = NoArgs
    /\ UNCHANGED <<codec, lookups>>
    /\ ret' = Ret("release", "ok", i, None)
    /\ UNCHANGED <<pending, txnBase, backend>>


\* --------------------------------------------------------------- backend

\* The attributes a node class registers (node.py:68-70, 370-372).  A
\* Resource registers none itself; its users do (node.py:462-465), here
\* with no attribute names.
atnm_one(cls) == IF cls \in {"Domain", "Collection"} THEN {"resins"} ELSE {}
atnm_lst(cls) ==
    CASE cls = "Domain"     -> {"collectionRef"}
      [] cls = "Collection" -> {"cn"}
      [] OTHER              -> {}

\* One change of a modify request.
Mod(op, attr, value) == [op |-> op, attr |-> attr, value |-> value]

\* The backend applying one change to an entry; ok is FALSE when the
\* directory rejects it (unknown attribute type, value already there,
\* value not there).
ApplyMod(e, m) ==
    CASE m.attr = "resins" /\ m.op = "add" ->
            IF e.entry.resins = None
            THEN [e EXCEPT !.entry.resins = m.value] ELSE [e EXCEPT !.ok = FALSE]
      [] m.attr = "resins" /\ m.op = "delete" ->
            IF e.entry.resins = m.value
            THEN [e EXCEPT !.entry.resins = None] ELSE [e EXCEPT !.ok = FALSE]
      [] m.attr \in {"collectionRef", "cn"} /\ m.op = "add" ->
            IF m.value \notin e.entry[m.attr]
            THEN [e EXCEPT !.entry[m.attr] = @ \cup {m.value}] ELSE [e EXCEPT !.ok = FALSE]
      [] m.attr \in {"collectionRef", "cn"} /\ m.op = "delete" ->
            IF m.value \in e.entry[m.attr]
            THEN [e EXCEPT !.entry[m.attr] = @ \ {m.value}] ELSE [e EXCEPT !.ok = FALSE]
      [] OTHER -> [e EXCEPT !.ok = FALSE]

RECURSIVE ApplyMods(_, _)
ApplyMods(e, changes) ==
    IF changes = <<>> \/ ~e.ok THEN e
    ELSE ApplyMods(ApplyMod(e, Head(changes)), Tail(changes))

\* The backend's modify(location, changes): all changes or none.
BackendModify(b, location, changes) ==
    IF location \notin DOMAIN b THEN [ok |-> FALSE, b |-> b]
    ELSE LET r == ApplyMods([ok |-> TRUE, entry |-> b[location]], changes)
         IN IF r.ok THEN [ok |-> TRUE, b |-> [b EXCEPT ![location] = r.entry]]
            ELSE [ok |-> FALSE, b |-> b]

RECURSIVE SetToSeq(_)
SetToSeq(S) ==
    IF S = {} THEN <<>>
    ELSE LET x == CHOOSE x \in S : TRUE IN <<x>> \o SetToSeq(S \ {x})

\* DataSyncLDAP.load_vars (ldap.py:301-332) on a node record: the node
\* after the load, or unchanged with ok FALSE when an assertion or the
\* search refuses.
\* Lines 328 and 330 name atnm_lst and atnm_one without self; they are
\* read as the attributes registered on the node.
load_vars(n, b) ==
    IF n.loaded \/ n.created THEN [ok |-> FALSE, n |-> n, err |-> "AssertionError"]
    ELSE IF n.location \notin DOMAIN b THEN [ok |-> FALSE, n |-> n, err |-> "BackendError"]
    ELSE [ok |-> TRUE, err |-> None,
          n |-> [n EXCEPT !.loaded = TRUE,
                    !.attrvals.resins = IF "resins" \in atnm_one(n.cls)
                                        THEN b[n.location].resins ELSE @,
                    !.attrvals.collectionRef = IF "collectionRef" \in atnm_lst(n.cls)
                                        THEN SetToSeq(b[n.location].collectionRef) ELSE @,
                    !.attrvals.cn = IF "cn" \in atnm_lst(n.cls)
                                        THEN SetToSeq(b[n.location].cn) ELSE @]]

\* DataSyncLDAP.set_list_elem (ldap.py:374-391) on a node record.  No
\* load is triggered, so an unloaded node has no list to edit (KeyError).
\* With oldval given, line 386 deletes from a Python list by a string
\* index, which raises TypeError before anything changes.  Otherwise the
\* local list is appended to first, then the backend is asked to modify.
\* The result carries the node, the backend, and whether modify_s was
\* reached and accepted.
set_list_elem(n, b, listnm, oldval, newval) ==
    IF oldval = None /\ newval = None
    THEN LET r == BackendModify(b, n.location, <<>>)
         IN [n |-> n, b |-> r.b, err |-> IF r.ok THEN None ELSE "BackendError",
             modified |-> TRUE, ok |-> r.ok]
    ELSE IF ~n.loaded \/ listnm \notin atnm_lst(n.cls)
    THEN [n |-> n, b |-> b, err |-> "KeyError", modified |-> FALSE, ok |-> FALSE]
    ELSE IF oldval # None
    THEN [n |-> n, b |-> b, err |-> "TypeError", modified |-> FALSE, ok |-> FALSE]
    ELSE
    LET r == BackendModify(b, n.location, <<Mod("add", listnm, newval)>>)
    IN [n |-> [n EXCEPT !.attrvals[listnm] = Append(@, newval)], b |-> r.b,
        err |-> IF r.ok THEN None ELSE "BackendError", modified |-> TRUE, ok |-> r.ok]

\* DataSyncLDAP.set_value (ldap.py:345-361) on a node record.  After
\* the implicit load, line 356 subscripts the old value (a string or
\* None) with the attribute name, which raises TypeError: the lines
\* that would store newval and call modify_s are never reached.
set_value(n, b, varnm, newval) ==
    IF varnm \notin atnm_one(n.cls)
    THEN [n |-> n, b |-> b, err |-> "AssertionError", modified |-> FALSE, ok |-> FALSE]
    ELSE
    LET ld == IF n.loaded THEN [ok |-> TRUE, n |-> n, err |-> None] ELSE load_vars(n, b)
    IN IF ~ld.ok
       THEN [n |-> n, b |-> b, err |-> ld.err, modified |-> FALSE, ok |-> FALSE]
       ELSE [n |-> ld.n, b |-> b, err |-> "TypeError", modified |-> FALSE, ok |-> FALSE]

\* A caller loads a node it holds (get_vars / load_vars).
LoadVars(i) ==
    /\ i \in held
    /\ LET r == load_vars(nodes[i], backend)
       IN /\ nodes' = [nodes EXCEPT ![i] = r.n]
          /\ ret' = Ret("load_vars", IF r.ok THEN "ok" ELSE "error", i, r.err)
    /\ calls' = <<>>
    /\ args' = NoArgs
    /\ UNCHANGED <<codec, app, lookups>>
    /\ UNCHANGED <<held, children, pending, txnBase, backend>>

\* A caller sets a list element on a node it holds.
SetListElem(i, listnm, oldval, newval) ==
    /\ i \in held
    /\ Len(nodes[i].attrvals[listnm]) < MaxList \/ newval = None
    /\ LET r == set_list_elem(nodes[i], backend, listnm, oldval, newval)
       IN /\ nodes' = [nodes EXCEPT ![i] = r.n]
          /\ backend' = r.b
          /\ calls' = IF r.modified THEN <<Call("modify", i, r.ok)>> ELSE <<>>
          /\ args' = DataArgs(i, listnm, oldval, newval, {})
          /\ UNCHANGED <<codec, app, lookups>>
          /\ ret' = Ret("set_list_elem", IF r.ok THEN "ok" ELSE "error", i, r.err)
    /\ txnBase' = IF pending = <<>> THEN backend' ELSE txnBase
    /\ UNCHANGED <<held, children, pending>>

\* A caller sets a singular value on a node it holds.
SetValue(i, varnm, newval) ==
    /\ i \in held
    /\ LET r == set_value(nodes[i], backend, varnm, newval)
       IN /\ nodes' = [nodes EXCEPT ![i] = r.n]
          /\ backend' = r.b
          /\ calls' = IF r.modified THEN <<Call("modify", i, r.ok)>> ELSE <<>>
          /\ args' = NoArgs
          /\ UNCHANGED <<codec, app, lookups>>
          /\ ret' = Ret("set_value", IF r.ok THEN "ok" ELSE "error", i, r.err)
    /\ txnBase' = IF pending = <<>> THEN backend' ELSE txnBase
    /\ UNCHANGED <<held, children, pending>>

\* ------------------------------------------------------------------ index

\* A name -> identifier table is a set of pairs <<name, uuid>>.
Has(tbl, name) == \E e \in tbl : e[1] = name
Get(tbl, name, dflt) ==
    IF Has(tbl, name) THEN (CHOOSE e \in tbl : e[1] = name)[2] ELSE dflt
Put(tbl, name, uuid) == { e \in tbl : e[1] # name } \cup { <<name, uuid>> }

\* idxe_re.match (node.py:16): the identifier, then optionally one space
\* and a non-empty name.
idxe_re(s) ==
    \E u \in Uuids :
        \/ s = u
        \/ StartsWith(s, u \o " ") /\ Len(s) > Len(u) + 1

\* The groups idxe_re captures: <<name, uuid>>, the name None when absent.
idxe_groups(s) ==
    LET u == CHOOSE u \in Uuids : s = u \/ StartsWith(s, u \o " ")
    IN IF s = u THEN <<None, u>> ELSE <<SubSeq(s, Len(u) + 2, Len(s)), u>>

\* Longest entry name put through encoding and decoding.
MaxName == 3

\* Printable characters names are made of: a letter, the separator
\* itself, and a character identifiers are made of.
NameChars == {"a", " ", "0"}

RECURSIVE StringsOf(_)
StringsOf(n) ==
    IF n = 0 THEN {""}
    ELSE { c \o t : c \in NameChars, t \in StringsOf(n - 1) }

\* The names of entries: absent, or a printable string (step_re).
CodecNames == {None} \cup UNION { StringsOf(n) : n \in 1 .. MaxName }

\* An identifier and a name on their way into an index entry.
InitCodec ==
    /\ InitRest
    /\ codec \in { Codec("input", u, n, None, FALSE, <<>>) : u \in Uuids, n \in CodecNames }

\* The entry is put in its stored form (node.py:140-144).
EncodeEntry ==
    /\ codec.stage = "input"
    /\ codec' = [codec EXCEPT !.stage = "encoded", !.entry = Encode(codec.uuid, codec.name)]
    /\ ret' = Ret("encode", "ok", NoNode, None)
    /\ UNCHANGED <<nodes, held, children, pending, txnBase, backend, calls, args, app, lookups>>

\* The stored form is parsed (node.py:91-93).
DecodeEntry ==
    /\ codec.stage = "encoded"
    /\ codec' = [codec EXCEPT !.stage = "decoded",
                              !.matched = idxe_re(codec.entry),
                              !.groups = IF idxe_re(codec.entry)
                                         THEN idxe_groups(codec.entry) ELSE <<>>]
    /\ ret' = Ret("decode", IF idxe_re(codec.entry) THEN "ok" ELSE "error", NoNode,
                  IF idxe_re(codec.entry) THEN None ELSE "AssertionError")
    /\ UNCHANGED <<nodes, held, children, pending, txnBase, backend, calls, args, app, lookups>>

CodecNext == EncodeEntry \/ DecodeEntry

\* Index entries through encoding and decoding.
SpecCodec == InitCodec /\ [][CodecNext]_vars

\* self.index is None: true of an Index whose table has not been made.
\* Collection.__init__ (node.py:363-373) does not run Index.__init__, so
\* on a Collection self.index is the method of node.py:105, which is
\* neither None nor a table.
index_is_None(n) == ~n.hasIndex /\ n.cls # "Collection"

\* Index.load_index (node.py:80-94) on a node record.  The entries are
\* stored with self[name] = uuid, in the dict the node itself is, while
\* self.index stays the empty table line 89 made.
load_index(n, b) ==
    IF ~index_is_None(n) \/ n.uuid # None
    THEN [ok |-> FALSE, n |-> n, err |-> "AssertionError"]
    ELSE
    LET ld == load_vars(n, b)
    IN IF ~ld.ok THEN [ok |-> FALSE, n |-> n, err |-> ld.err]
       ELSE IF "collectionRef" \notin atnm_lst(n.cls)
       THEN [ok |-> FALSE, n |-> [ld.n EXCEPT !.hasIndex = TRUE, !.index = {}],
             err |-> "AssertionError"]
       ELSE IF \E s \in Range(ld.n.attrvals.collectionRef) : ~idxe_re(s)
       THEN [ok |-> FALSE, n |-> [ld.n EXCEPT !.hasIndex = TRUE, !.index = {}],
             err |-> "AssertionError"]
       ELSE [ok |-> TRUE, err |-> None,
             n |-> [ld.n EXCEPT !.hasIndex = TRUE, !.index = {},
                       !.dict = { idxe_groups(s) : s \in Range(ld.n.attrvals.collectionRef) }]]

\* Index.get_index_entry (node.py:113-120) on a node record: the node
\* after a first-contact load, and the identifier found (val).  On a
\* Collection line 120 asks the method for .get (AttributeError).
get_index_entry(n, b, name, dflt) ==
    LET ld == IF index_is_None(n) THEN load_index(n, b) ELSE [ok |-> TRUE, n |-> n, err |-> None]
    IN IF ~ld.ok THEN [ok |-> FALSE, n |-> ld.n, err |-> ld.err, val |-> None]
       ELSE IF ~ld.n.hasIndex
       THEN [ok |-> FALSE, n |-> ld.n, err |-> "AttributeError", val |-> None]
       ELSE [ok |-> TRUE, n |-> ld.n, err |-> None, val |-> Get(ld.n.index, name, dflt)]

\* Index.set_index_entry (node.py:122-151) on a node record.  For a name
\* that has an entry, oldattr is built from the new identifier and the
\* old identifier (line 135), or is the new identifier (line 137).
set_index_entry(n, b, name, uuid) ==
    IF uuid = None
    THEN [n |-> n, b |-> b, err |-> "TypeError", modified |-> FALSE, ok |-> FALSE]
    ELSE IF ~uuid_re(uuid) \/ ~(name = None \/ step_re(name))
    THEN [n |-> n, b |-> b, err |-> "AssertionError", modified |-> FALSE, ok |-> FALSE]
    ELSE
    LET ld == IF index_is_None(n) THEN load_index(n, b) ELSE [ok |-> TRUE, n |-> n, err |-> None]
    IN IF ~ld.ok
       THEN [n |-> ld.n, b |-> b, err |-> ld.err, modified |-> FALSE, ok |-> FALSE]
       ELSE IF ~ld.n.hasIndex
       THEN [n |-> ld.n, b |-> b, err |-> "TypeError", modified |-> FALSE, ok |-> FALSE]
       ELSE
       LET oldattr == IF Has(ld.n.index, name)
                      THEN IF name # None THEN uuid \o " " \o Get(ld.n.index, name, None)
                           ELSE uuid
                      ELSE None
           newattr == Encode(uuid, name)
           r == set_list_elem(ld.n, b, "collectionRef", oldattr, newattr)
       IN IF r.err # None THEN r
          ELSE [r EXCEPT !.n.index = Put(@, name, uuid)]

\* ------------------------------------------------------------ transaction

\* The command objects of a node's change log: SetAttribute{old,new},
\* ListInsert, ListRemove.
SetAttribute(attr, old, new) == [kind |-> "set", attr |-> attr, old |-> old, new |-> new]
ListInsert(attr, new) == [kind |-> "insert", attr |-> attr, old |-> None, new |-> new]
ListRemove(attr, old) == [kind |-> "remove", attr |-> attr, old |-> old, new |-> None]

\* A sync() whose reversal takes the new value away but does not put
\* the old one back.
SyncChangesForgetsOld(cmd, reverse) ==
    IF reverse
    THEN (IF cmd.new # None THEN <<Mod("delete", cmd.attr, cmd.new)>> ELSE <<>>)
    ELSE (IF cmd.old # None THEN <<Mod("delete", cmd.attr, cmd.old)>> ELSE <<>>)
         \o (IF cmd.new # None THEN <<Mod("add", cmd.attr, cmd.new)>> ELSE <<>>)

\* The changes sync() sends for a command, forward or reversed.
SyncChanges(cmd, reverse) ==
    LET del == IF reverse THEN cmd.new ELSE cmd.old
        add == IF reverse THEN cmd.old ELSE cmd.new
    IN (IF del # None THEN <<Mod("delete", cmd.attr, del)>> ELSE <<>>)
       \o (IF add # None THEN <<Mod("add", cmd.attr, add)>> ELSE <<>>)

\* A node's sync(reverse): replay or invert its command on the backend.
\* down says the backend is unavailable for this call.
sync(n, b, reverse, down) ==
    IF down THEN [ok |-> FALSE, b |-> b]
    ELSE IF n.cmd.kind = "none" THEN [ok |-> TRUE, b |-> b]
    ELSE BackendModify(b, n.location, SyncChanges(n.cmd, reverse))

\* A node's clear_cache(): drop the in-memory attribute state.
clear_cache(n) == [n EXCEPT !.attrvals = NoAttrs, !.loaded = FALSE, !.cmd = NoCmd]

\* A register() that appends without looking.
registerAlways(p, i) == Append(p, i)

\* register(node): append the node unless it is pending already.
register(p, i) == IF i \in Range(p) THEN p ELSE Append(p, i)

\* The forward walk of commit() from position i: sync each pending node
\* in order until one fails.  failAt is the position at which the backend
\* is unavailable (0: nowhere).
RECURSIVE CommitForward(_, _, _, _, _)
CommitForward(ns, p, i, st, failAt) ==
    IF i > Len(p) THEN [st EXCEPT !.failed = 0]
    ELSE LET r == sync(ns[p[i]], st.b, FALSE, i = failAt)
         IN IF r.ok
            THEN CommitForward(ns, p, i + 1,
                    [st EXCEPT !.b = r.b, !.calls = Append(@, Call("sync", p[i], TRUE))],
                    failAt)
            ELSE [st EXCEPT !.failed = i, !.calls = Append(@, Call("sync", p[i], FALSE))]

\* The rollback walk of commit(): sync(reverse=true) on the positions
\* j, j-1, ..., 1.  rfailAt is the position at which the backend is
\* unavailable (0: nowhere).
RECURSIVE CommitReverse(_, _, _, _, _)
CommitReverse(ns, p, j, st, rfailAt) ==
    IF j < 1 THEN st
    ELSE LET r == sync(ns[p[j]], st.b, TRUE, j = rfailAt)
         IN CommitReverse(ns, p, j - 1,
                [st EXCEPT !.b = r.b,
                           !.calls = Append(@, Call("sync_reverse", p[j], r.ok))],
                rfailAt)

\* A clear_cache() walk that runs from the last pending node to the first.
ClearCallsBackwards(p) ==
    [i \in 1 .. Len(p) |-> Call("clear_cache", p[Len(p) + 1 - i], TRUE)]

\* The clear_cache() walk over the pending nodes, in order.
ClearCalls(p) == [i \in 1 .. Len(p) |-> Call("clear_cache", p[i], TRUE)]
ClearAll(ns, p) == [i \in Ids |-> IF i \in Range(p) THEN clear_cache(ns[i]) ELSE ns[i]]

\* A commit() whose rollback starts at the node that failed.
commitReversesFailed(ns, p, b, failAt, rfailAt) ==
    LET fw == CommitForward(ns, p, 1, [b |-> b, calls |-> <<>>, failed |-> 0], failAt)
    IN IF fw.failed = 0
       THEN [fw EXCEPT !.calls = @ \o ClearCalls(p)]
       ELSE CommitReverse(ns, p, fw.failed, fw, rfailAt)

\* commit() as a whole: the final backend, the calls made, the position
\* that failed (0: none).
commit(ns, p, b, failAt, rfailAt) ==
    LET fw == CommitForward(ns, p, 1, [b |-> b, calls |-> <<>>, failed |-> 0], failAt)
    IN IF fw.failed = 0
       THEN [fw EXCEPT !.calls = @ \o ClearCalls(p)]
       ELSE CommitReverse(ns, p, fw.failed - 1, fw, rfailAt)

\* A deferred write: the command is recorded on the node and the node is
\* registered; the backend is not contacted.
DeferWrite(i, cmd) ==
    /\ i \in held
    /\ nodes[i].cmd.kind = "none"
    /\ cmd.attr \in atnm_one(nodes[i].cls) \cup atnm_lst(nodes[i].cls)
    /\ cmd.kind = "set" => cmd.old = backend[nodes[i].location].resins /\ cmd.old # cmd.new
    /\ nodes' = [nodes EXCEPT ![i].cmd = cmd]
    /\ pending' = register(pending, i)
    /\ txnBase' = IF pending = <<>> THEN backend ELSE txnBase
    /\ calls' = <<>>
    /\ args' = NoArgs
    /\ UNCHANGED <<codec, app, lookups>>
    /\ ret' = Ret("defer", "ok", i, None)
    /\ UNCHANGED <<held, children, backend>>

\* TransactionManager.register
Register(i) ==
    /\ i \in held
    /\ pending' = register(pending, i)
    /\ txnBase' = IF pending = <<>> THEN backend ELSE txnBase
    /\ calls' = <<>>
    /\ args' = NoArgs
    /\ UNCHANGED <<codec, app, lookups>>
    /\ ret' = Ret("register", "ok", i, None)
    /\ UNCHANGED <<nodes, held, children, backend>>

\* TransactionManager.commit
Commit(failAt, rfailAt) ==
    /\ pending # <<>>
    /\ LET r == commit(nodes, pending, backend, failAt, rfailAt)
           ns == IF r.failed = 0 THEN ClearAll(nodes, pending) ELSE nodes
       IN /\ backend' = r.b
          /\ calls' = r.calls
          /\ args' = NoArgs
          /\ UNCHANGED <<codec, lookups>>
          /\ app' = SweepApp(app, held, <<>>)
          /\ ret' = Ret("commit", IF r.failed = 0 THEN "ok" ELSE "error", r.failed,
                        IF r.failed = 0 THEN None ELSE "BackendError")
          /\ nodes' = Reclaim(ns, held, <<>>)
          /\ children' = Sweep(children, held, <<>>)
          /\ txnBase' = r.b
    /\ pending' = <<>>
    /\ UNCHANGED held

\* TransactionManager.abort
Abort ==
    /\ pending # <<>>
    /\ calls' = ClearCalls(pending)
    /\ args' = NoArgs
    /\ UNCHANGED <<codec, lookups>>
    /\ app' = SweepApp(app, held, <<>>)
    /\ nodes' = Reclaim(ClearAll(nodes, pending), held, <<>>)
    /\ children' = Sweep(children, held, <<>>)
    /\ pending' = <<>>
    /\ ret' = Ret("abort", "ok", NoNode, None)
    /\ UNCHANGED <<held, txnBase, backend>>

\* The writes callers stage in this model: clearing the resins value of
\* collection X and inserting "a" in the cn list of collection Y.
Commands(location) ==
    IF location = collection_dn(UuidX) THEN { SetAttribute("resins", UuidX, None) }
    ELSE IF location = collection_dn(UuidY) THEN { ListInsert("cn", "a") }
    ELSE {}

\* ------------------------------------------------------------------- walk

\* Longest path a caller walks.
MaxPath == 2

\* Domain.collection (node.py:296-301), the Domain being the Root.
collection(ns, ch, coll_uuid) ==
    IF coll_uuid = None
    THEN [ok |-> FALSE, full |-> FALSE, id |-> NoNode, ns |-> ns, ch |-> ch, err |-> "TypeError"]
    ELSE IF ~uuid_re(coll_uuid)
    THEN [ok |-> FALSE, full |-> FALSE, id |-> NoNode, ns |-> ns, ch |-> ch,
          err |-> "AssertionError"]
    ELSE child_node(ns, ch, Root, "resins", coll_uuid, "Collection")

\* Domain.resource (node.py:310-317): the collection is looked up and
\* dropped, and the Resource is asked for as the child cn=<res_name> of
\* the Domain itself.
resource(ns, ch, coll_uuid, res_name) ==
    LET coll == collection(ns, ch, coll_uuid)
    IN IF ~coll.ok THEN coll
       ELSE child_node(coll.ns, coll.ch, Root, "cn", res_name, "Resource")

\* A walk that starts with here and prev exchanged.
WalkStartSwapped(ns, ch, self) ==
    [ns |-> ns, ch |-> ch, here |-> NoNode, prev |-> self, coll_uuid |-> None,
     bound |-> FALSE, status |-> "run", err |-> None]

\* The loop state of Index.walk: the node table and caches, here and
\* prev, coll_uuid and whether it has been assigned, and how the loop
\* stands: "run", "none" (returned None), "error" (raised) or "full" (no
\* slot in the model).
WalkStart(ns, ch, self) ==
    [ns |-> ns, ch |-> ch, here |-> self, prev |-> NoNode, coll_uuid |-> None,
     bound |-> FALSE, status |-> "run", err |-> None]

\* node.py:208: here = self.appinst.collection (coll_uuid), c being what
\* the lookup gave.
WalkInto(st, c) ==
    IF c.full THEN [st EXCEPT !.status = "full"]
    ELSE IF ~c.ok THEN [st EXCEPT !.status = "error", !.err = c.err]
    ELSE [st EXCEPT !.ns = c.ns, !.ch = c.ch, !.here = c.id]

\* node.py:205-210, g being what get_index_entry gave for the step.
WalkLookup(st, g) ==
    IF ~g.ok
    THEN [st EXCEPT !.ns[st.here] = g.n, !.prev = st.here, !.status = "error", !.err = g.err]
    ELSE IF g.val = None
    THEN [st EXCEPT !.ns[st.here] = g.n, !.prev = st.here, !.coll_uuid = None,
                    !.bound = TRUE, !.here = NoNode]
    ELSE WalkInto([st EXCEPT !.ns[st.here] = g.n, !.prev = st.here,
                             !.coll_uuid = g.val, !.bound = TRUE],
                  collection([st.ns EXCEPT ![st.here] = g.n], st.ch, g.val))

\* One iteration of the loop of Index.walk (node.py:198-210).
WalkStep(st, b, step) ==
    IF ~step_re(step) THEN [st EXCEPT !.status = "error", !.err = "AssertionError"]
    ELSE IF st.here = NoNode THEN [st EXCEPT !.status = "none"]
    ELSE WalkLookup(st, get_index_entry(st.ns[st.here], b, step, None))

\* The loop of Index.walk (node.py:196-210) from step k on.
RECURSIVE WalkLoop(_, _, _, _)
WalkLoop(st, b, path, k) ==
    IF k > Len(path) \/ st.status # "run" THEN st
    ELSE WalkLoop(WalkStep(st, b, path[k]), b, path, k + 1)

\* Whether Index.walk keeps maybe_res (node.py:192-193).
keep_maybe_res(path, res_name, maybe_res) ==
    IF res_name # None \/ Len(path) = 0 THEN FALSE ELSE maybe_res

\* node.py:221-226: the Resource asked for, r being what the lookup gave.
WalkResource(lp, r) ==
    IF r.full THEN [lp EXCEPT !.status = "full"]
    ELSE IF ~r.ok THEN [lp EXCEPT !.status = "error", !.err = r.err]
    ELSE [lp EXCEPT !.ns = r.ns, !.ch = r.ch, !.status = "node", !.here = r.id]

\* node.py:212-226, after the loop: the tail fallback, then the Resource
\* lookup with coll_uuid as the last iteration left it.
WalkEnd(lp, path, res_name, maybe) ==
    IF lp.status # "run" THEN lp
    ELSE IF lp.here = NoNode /\ ~maybe THEN [lp EXCEPT !.status = "none"]
    ELSE IF lp.here = NoNode
    THEN WalkResource(lp, resource(lp.ns, lp.ch, lp.coll_uuid, path[Len(path)]))
    ELSE IF res_name = None THEN [lp EXCEPT !.status = "node"]
    ELSE IF ~lp.bound THEN [lp EXCEPT !.status = "error", !.err = "UnboundLocalError"]
    ELSE WalkResource(lp, resource(lp.ns, lp.ch, lp.coll_uuid, res_name))

\* Index.walk (node.py:164-226) of instance self: the node table and
\* caches afterwards, and the result: status "node" with the instance
\* returned in here, "none", "error", or "full".
walk(ns, ch, b, self, path, res_name, maybe_res) ==
    WalkEnd(WalkLoop(WalkStart(ns, ch, self), b, path, 1), path, res_name,
            keep_maybe_res(path, res_name, maybe_res))

Paths == UNION { [1 .. n -> Names] : n \in 0 .. MaxPath }

\* The caller keeps what walk returned; instances that were constructed
\* on the way and are not returned are reclaimed.
WalkDone(r) ==
    /\ r.status # "full"
    /\ held' = IF r.status = "node" THEN held \cup {r.here} ELSE held
    /\ nodes' = Reclaim(r.ns, held', pending)
    /\ children' = Sweep(r.ch, held', pending)
    /\ ret' = Ret("walk", r.status, IF r.status = "node" THEN r.here ELSE NoNode, r.err)

\* A caller walks a path from an Index it holds and keeps the result.
Walk(self, path, res_name, maybe_res) ==
    /\ self \in held /\ IsIndex(nodes[self])
    /\ WalkDone(walk(nodes, children, backend, self, path, res_name, maybe_res))
    /\ args' = Args(self, path, res_name, maybe_res)
    /\ UNCHANGED <<codec, app, lookups>>
    /\ calls' = <<>>
    /\ UNCHANGED <<pending, txnBase, backend>>

\* Whether the directory stores an index entry for a name at a location.
Stored(b, loc, name) ==
    \E e \in b[loc].collectionRef : idxe_re(e) /\ idxe_groups(e)[1] = name

\* The arguments of get_index_entry and set_index_entry, with whether
\* the directory stored an entry for the name when the call was made.
IndexArgs(i, name, uuid, dflt) ==
    [start |-> i, name |-> name, uuid |-> uuid, dflt |-> dflt,
     had |-> Stored(backend, nodes[i].location, name)]

\* The directory's Domain entry holding index entries already: up to
\* MaxList entries, no two for one name.
StoredSets ==
    { st \in SUBSET EntryStrings :
        /\ Cardinality(st) <= MaxList
        /\ \A e, f \in st : idxe_groups(e)[1] = idxe_groups(f)[1] => e = f }

InitIndex ==
    /\ InitNodes
    /\ codec = NoCodec
    /\ \E st \in StoredSets : backend = [InitBackend EXCEPT ![BaseDN].collectionRef = st]
    /\ txnBase = backend

\* A caller asks an Index it holds for the entry of a name.
GetIndexEntry(i, name, dflt) ==
    /\ i \in held /\ IsIndex(nodes[i])
    /\ LET r == get_index_entry(nodes[i], backend, name, dflt)
       IN /\ nodes' = [nodes EXCEPT ![i] = r.n]
          /\ ret' = [op |-> "get_index_entry", kind |-> IF r.ok THEN "value" ELSE "error",
                     node |-> i, err |-> r.err, val |-> r.val]
    /\ args' = IndexArgs(i, name, None, dflt)
    /\ calls' = <<>>
    /\ UNCHANGED <<held, children, pending, txnBase, backend, codec, app, lookups>>

\* A caller sets an index entry on an Index it holds.
SetIndexEntry(i, name, uuid) ==
    /\ i \in held /\ IsIndex(nodes[i])
    /\ Len(nodes[i].attrvals.collectionRef) < MaxList
    /\ LET r == set_index_entry(nodes[i], backend, name, uuid)
       IN /\ nodes' = [nodes EXCEPT ![i] = r.n]
          /\ backend' = r.b
          /\ calls' = IF r.modified THEN <<Call("modify", i, r.ok)>> ELSE <<>>
          /\ ret' = Ret("set_index_entry", IF r.ok THEN "ok" ELSE "error", i, r.err)
    /\ args' = IndexArgs(i, name, uuid, None)
    /\ UNCHANGED <<codec, app, lookups>>
    /\ txnBase' = IF pending = <<>> THEN backend' ELSE txnBase
    /\ UNCHANGED <<held, children, pending>>

\* The children callers ask for: collections by identifier, and the
\* resources a and z of a collection.
ChildKeys ==
    { <<"resins", u, "Collection">> : u \in Uuids }
        \cup { <<"documentIdentifier", d, "Resource">> : d \in {"a", "z"} }

CacheNext ==
    \/ \E p \in Ids, k \in ChildKeys : ChildNode(p, k[1], k[2], k[3])
    \/ \E i \in Ids : Release(i)

WriteNext ==
    \/ \E i \in Ids : LoadVars(i)
    \/ \E i \in Ids : SetListElem(i, "cn", None, "a")
    \/ \E i \in Ids : SetListElem(i, "cn", "a", None)
    \/ \E i \in Ids, v \in {None, UuidY} : SetValue(i, "resins", v)

TxnNext ==
    \/ \E u \in Uuids : ChildNode(Root, "resins", u, "Collection")
    \/ \E i \in Ids : \E cmd \in Commands(nodes[i].location) : DeferWrite(i, cmd)
    \/ \E i \in Ids : Register(i)
    \/ \E failAt \in 0 .. Len(pending) :
            \E rfailAt \in 0 .. (IF failAt = 0 THEN 0 ELSE failAt - 1) : Commit(failAt, rfailAt)
    \/ Abort

WalkNext ==
    \/ \E i \in Ids, name \in {"a", "b"}, u \in Uuids : SetIndexEntry(i, name, u)
    \/ \E i \in Ids, path \in Paths, res_name \in {None, "z"}, maybe_res \in BOOLEAN :
            Walk(i, path, res_name, maybe_res)
    \/ \E i \in Ids : Release(i)

\* ----------------------------------------------------------------- access

\* Longest string of flags a caller asks for.
MaxFlags == 2

\* Collection.access_rights (node.py:429-439): the constant 'dcwrpkov'.
access_rights == {"d", "c", "w", "r", "p", "k", "o", "v"}

\* The flags callers ask for: two that are granted, and one of the known
\* flags that is not (administration).
FlagChars == {"a", "c", "d"}
FlagStrings == UNION { [1 .. n -> FlagChars] : n \in 0 .. MaxFlags }

\* Collection.access_require (node.py:441-453).  With a flag missing,
\* line 452 calls self.access_desciption, a name the class does not
\* define (the method is access_description): AttributeError, raised
\* before the exception of line 453 is built.
access_require(flags) ==
    LET wrong == SelectSeq(flags, LAMBDA f : f \notin access_rights)
    IN IF Len(wrong) > 0
       THEN [ok |-> FALSE, err |-> "AttributeError", missing |-> {}]
       ELSE [ok |-> TRUE, err |-> None, missing |-> {}]

\* A Resource that answers a rights check itself, granting every flag.
Resource_access_require_own(flags) == [ok |-> TRUE, err |-> None, missing |-> {}]

\* Resource.access_require (node.py:489-490): the owning Collection's.
Resource_access_require(flags) == access_require(flags)

\* Resource.create (node.py:492-498)
Resource_create(n) ==
    LET a == Resource_access_require(<<"c">>)
    IN IF ~a.ok THEN [ok |-> FALSE, n |-> n, err |-> a.err]
       ELSE [ok |-> TRUE, n |-> [n EXCEPT !.created = TRUE], err |-> None]

\* A delete that checks the right and leaves the created flag alone.
Resource_delete_keeps(n) ==
    LET a == Resource_access_require(<<"d">>)
    IN [ok |-> a.ok, n |-> n, err |-> a.err]

\* Resource.delete (node.py:500-505)
Resource_delete(n) ==
    LET a == Resource_access_require(<<"d">>)
    IN IF ~a.ok THEN [ok |-> FALSE, n |-> n, err |-> a.err]
       ELSE [ok |-> TRUE, n |-> [n EXCEPT !.created = FALSE], err |-> None]

\* The arguments of an access check, or of create and delete with the
\* created flag as it was when the call was made.
AccessArgs(i, flags) == [start |-> i, flags |-> flags, was |-> nodes[i].created]

\* A caller checks flags on a Collection or a Resource it holds.
AccessRequire(i, flags) ==
    /\ i \in held /\ nodes[i].cls \in {"Collection", "Resource"}
    /\ LET r == IF nodes[i].cls = "Resource" THEN Resource_access_require(flags)
                ELSE access_require(flags)
       IN ret' = [op |-> "access_require", kind |-> IF r.ok THEN "ok" ELSE "error",
                  node |-> i, err |-> r.err, missing |-> r.missing]
    /\ args' = AccessArgs(i, flags)
    /\ calls' = <<>>
    /\ UNCHANGED <<nodes, held, children, pending, txnBase, backend, codec, app, lookups>>

\* A caller creates a Resource it holds.
ResourceCreate(i) ==
    /\ i \in held /\ nodes[i].cls = "Resource"
    /\ LET r == Resource_create(nodes[i])
       IN /\ nodes' = [nodes EXCEPT ![i] = r.n]
          /\ ret' = Ret("create", IF r.ok THEN "ok" ELSE "error", i, r.err)
    /\ args' = AccessArgs(i, <<"c">>)
    /\ calls' = <<>>
    /\ UNCHANGED <<held, children, pending, txnBase, backend, codec, app, lookups>>

\* A caller deletes a Resource it holds.
ResourceDelete(i) ==
    /\ i \in held /\ nodes[i].cls = "Resource"
    /\ LET r == Resource_delete(nodes[i])
       IN /\ nodes' = [nodes EXCEPT ![i] = r.n]
          /\ ret' = Ret("delete", IF r.ok THEN "ok" ELSE "error", i, r.err)
    /\ args' = AccessArgs(i, <<"d">>)
    /\ calls' = <<>>
    /\ UNCHANGED <<held, children, pending, txnBase, backend, codec, app, lookups>>

\* ---------------------------------------------------- created and loaded

\* The location of the Resource a of collection X.
ResourceDN == child_location(collection_dn(UuidX), "documentIdentifier", "a")

\* The directory holding that Resource already, stored in an earlier
\* session.
InitStored ==
    /\ InitNodes
    /\ codec = NoCodec
    /\ backend = [l \in BLocs \cup {ResourceDN} |->
                    IF l = ResourceDN THEN [resins |-> None, collectionRef |-> {}, cn |-> {}]
                    ELSE InitBackend[l]]
    /\ txnBase = backend

\* ------------------------------------------------------------- children

\* dn.split (',') [0] (ldap.py:459): the first component of a location.
FirstComponent(dn) ==
    LET k == CHOOSE k \in 1 .. Len(dn) + 1 :
                 /\ k = Len(dn) + 1 \/ SubSeq(dn, k, k) = ","
                 /\ \A j \in 1 .. k - 1 : SubSeq(dn, j, j) # ","
    IN SubSeq(dn, 1, k - 1)

\* The values a stored entry has for an attribute: entry.get (varnm, []).
EntryValues(entry, varnm) ==
    CASE varnm = "resins"        -> IF entry.resins = None THEN {} ELSE {entry.resins}
      [] varnm = "collectionRef" -> entry.collectionRef
      [] varnm = "cn"            -> entry.cn
      [] OTHER                   -> {}

\* search_s with SCOPE_ONE and the filter (varnm=*) (ldap.py:451-454): the
\* locations one level below location that have a value for varnm.
SearchOne(b, location, varnm) ==
    { l \in DOMAIN b :
        /\ Len(l) > Len(location) + 1
        /\ l = FirstComponent(l) \o "," \o location
        /\ EntryValues(b[l], varnm) # {} }

\* The loop of DataSyncLDAP.children (ldap.py:458-466) over the entries
\* found: each instance is read from the cache under the entry's first
\* component and, when missing, constructed and stored under it.
RECURSIVE children_loop(_, _, _, _, _, _)
children_loop(st, p, dns, varnm, cls, b) ==
    IF dns = <<>> \/ ~st.ok \/ st.full THEN st
    ELSE LET dn == Head(dns)
             var_is_val == FirstComponent(dn)
             obj == CacheGet(st.ch[p], var_is_val)
             vals == EntryValues(b[dn], varnm)
         IN IF obj = NoNode
            THEN IF ~CtorAccepts(cls, dn)
                 THEN [st EXCEPT !.ok = FALSE, !.err = "AssertionError"]
                 ELSE IF \A i \in Ids : st.ns[i].cls # "free"
                 THEN [st EXCEPT !.full = TRUE]
                 ELSE LET f == FreshOf(st.ns)
                      IN children_loop(
                           [st EXCEPT !.ns = [st.ns EXCEPT ![f] = NewNode(cls, dn)],
                                      !.ch = [st.ch EXCEPT ![p] = CachePut(@, var_is_val, f)],
                                      !.retval = @ \cup { <<v, f>> : v \in vals }],
                           p, Tail(dns), varnm, cls, b)
            ELSE IF st.ns[obj].cls = cls
                 THEN children_loop([st EXCEPT !.retval = @ \cup { <<v, obj>> : v \in vals }],
                                    p, Tail(dns), varnm, cls, b)
                 ELSE [st EXCEPT !.ok = FALSE, !.err = "AssertionError"]

\* DataSyncLDAP.children (ldap.py:423-467) of parent p: the dictionary
\* returned, as a set of <<value, instance>>, with the node table and the
\* caches after the call.
children_of(ns, ch, p, varnm, cls, b) ==
    LET st0 == [ok |-> TRUE, full |-> FALSE, err |-> None, ns |-> ns, ch |-> ch, retval |-> {}]
    IN IF ns[p].location \notin DOMAIN b
       THEN [st0 EXCEPT !.ok = FALSE, !.err = "BackendError"]
       ELSE children_loop(st0, p, SetToSeq(SearchOne(b, ns[p].location, varnm)), varnm, cls, b)

\* The arguments of children(), the instances callers held when the call
\* was made, and the dictionary it returned.
ChildrenArgs(p, varnm, cls, before, retval) ==
    [start |-> p, varnm |-> varnm, cls |-> cls, before |-> before, retval |-> retval]

\* A caller asks a node it holds for its children and keeps the entries
\* whose values are in keep; the rest of the dictionary is dropped.
Children(p, varnm, cls, keep) ==
    /\ p \in held
    /\ LET r == children_of(nodes, children, p, varnm, cls, backend)
           kept == IF r.ok THEN { e[2] : e \in { x \in r.retval : x[1] \in keep } } ELSE {}
       IN /\ ~r.full
          /\ held' = held \cup kept
          /\ nodes' = Reclaim(r.ns, held', pending)
          /\ children' = Sweep(r.ch, held', pending)
          /\ args' = ChildrenArgs(p, varnm, cls, held, IF r.ok THEN r.retval ELSE {})
          /\ ret' = Ret("children", IF r.ok THEN "ok" ELSE "error", p, r.err)
    /\ calls' = <<>>
    /\ UNCHANGED <<pending, txnBase, backend, codec, app, lookups>>

ChildrenNext ==
    \/ \E p \in Ids, k \in ChildKeys, keep \in SUBSET Uuids : Children(p, k[1], k[3], keep)
    \/ \E p \in Ids, k \in ChildKeys : ChildNode(p, k[1], k[2], k[3])
    \/ \E i \in Ids : Release(i)

\* ------------------------------------------------- resources by document

\* Collection.resource (node.py:387-391) on the Collection c: the child
\* asked for is keyed by the attribute name as the source spells it,
\* 'documentIdentifer'.
Collection_resource(ns, ch, c, docid) ==
    child_node(ns, ch, c, "documentIdentifer", docid, "Resource")

\* A caller asks a Collection it holds for a Resource and keeps it.
CollectionResource(i, docid) ==
    /\ i \in held /\ nodes[i].cls = "Collection"
    /\ LET r == Collection_resource(nodes, children, i, docid)
       IN /\ ~r.full
          /\ nodes' = r.ns
          /\ children' = r.ch
          /\ held' = IF r.ok THEN held \cup {r.id} ELSE held
          /\ ret' = Ret("Collection.resource", IF r.ok THEN "node" ELSE "error", r.id, r.err)
    /\ args' = DataArgs(i, docid, None, None, {})
    /\ calls' = <<>>
    /\ UNCHANGED <<pending, txnBase, backend, codec, app, lookups>>

ResourceNext ==
    \/ ChildNode(Root, "resins", UuidX, "Collection")
    \/ \E i \in Ids, d \in {"a", "z"} : CollectionResource(i, d)
    \/ \E i \in Ids, u \in Uuids : SetIndexEntry(i, "a", u)
    \/ \E i \in Ids, path \in Paths, res_name \in {None, "z"}, maybe_res \in BOOLEAN :
            Walk(i, path, res_name, maybe_res)

\* ---------------------------------------------------- concurrent lookups

\* child_node as threads run it: the statements of ldap.py:414-421 with
\* no lock around them, so another thread can run between the cache read
\* of line 415 and the construction and cache write of lines 417-418.

\* Lines 414-415 and the branch of 416: the thread reads the cache under
\* the full child location.  On a hit it returns the instance (line 420
\* asserting its class); on a miss it goes on to construct.
LookupCheck(t, p, varnm, value, cls) ==
    /\ lookups[t].pc = "idle"
    /\ p \in held
    /\ LET obj == CacheGet(children[p], child_lookup_key(nodes[p].location, varnm, value))
       IN IF obj = NoNode
          THEN /\ lookups' = [lookups EXCEPT ![t] = Lookup("construct", p, varnm, value, cls, NoNode)]
               /\ ret' = Ret("child_check", "miss", NoNode, None)
               /\ UNCHANGED held
          ELSE IF nodes[obj].cls = cls
          THEN /\ lookups' = [lookups EXCEPT ![t] = Lookup("done", p, varnm, value, cls, obj)]
               /\ held' = held \cup {obj}
               /\ ret' = Ret("child_node", "node", obj, None)
          ELSE /\ ret' = Ret("child_node", "error", NoNode, "AssertionError")
               /\ UNCHANGED <<held, lookups>>
    /\ args' = NoArgs
    /\ calls' = <<>>
    /\ UNCHANGED <<nodes, children, pending, txnBase, backend, codec, app>>

\* Lines 417-418 and 421: the thread constructs the instance, stores it
\* under varnm + '=' + value, and returns it.
LookupConstruct(t) ==
    /\ lookups[t].pc = "construct"
    /\ \E i \in Ids : nodes[i].cls = "free"
    /\ LET l == lookups[t]
           loc == child_location(nodes[l.p].location, l.varnm, l.value)
           f == FreshOf(nodes)
       IN IF ~CtorAccepts(l.cls, loc)
          THEN /\ lookups' = [lookups EXCEPT ![t] = Idle]
               /\ ret' = Ret("child_node", "error", NoNode, "AssertionError")
               /\ UNCHANGED <<nodes, children, held>>
          ELSE /\ nodes' = [nodes EXCEPT ![f] = NewNode(l.cls, loc)]
               /\ children' = [children EXCEPT ![l.p] =
                      CachePut(@, child_store_key(nodes[l.p].location, l.varnm, l.value), f)]
               /\ held' = held \cup {f}
               /\ lookups' = [lookups EXCEPT ![t] = [l EXCEPT !.pc = "done", !.obj = f]]
               /\ ret' = Ret("child_node", "node", f, None)
    /\ args' = NoArgs
    /\ calls' = <<>>
    /\ UNCHANGED <<pending, txnBase, backend, codec, app>>

\* The thread's caller lets go of what the lookup returned, and the
\* thread is free for another lookup.
LookupForget(t) ==
    /\ lookups[t].pc = "done"
    /\ lookups' = [lookups EXCEPT ![t] = Idle]
    /\ held' = IF \E u \in Threads \ {t} : lookups[u].obj = lookups[t].obj
               THEN held ELSE held \ {lookups[t].obj}
    /\ nodes' = Reclaim(nodes, held', pending)
    /\ children' = Sweep(children, held', pending)
    /\ app' = SweepApp(app, held', pending)
    /\ ret' = Ret("release", "ok", lookups[t].obj, None)
    /\ args' = NoArgs
    /\ calls' = <<>>
    /\ UNCHANGED <<pending, txnBase, backend, codec>>

RaceNext ==
    \/ \E t \in Threads, k \in ChildKeys : LookupCheck(t, Root, k[1], k[2], k[3])
    \/ \E t \in Threads : LookupConstruct(t)
    \/ \E t \in Threads : LookupForget(t)

\* ------------------------------------------------------------ base nodes

\* A base_node that constructs an instance at every call.
base_node_uncached(ns, a) ==
    IF a.userdomain = None
    THEN [ok |-> FALSE, full |-> FALSE, id |-> NoNode, ns |-> ns, a |-> a,
          err |-> "AssertionError"]
    ELSE IF \A i \in Ids : ns[i].cls # "free"
    THEN [ok |-> FALSE, full |-> TRUE, id |-> NoNode, ns |-> ns, a |-> a, err |-> None]
    ELSE [ok |-> TRUE, full |-> FALSE, id |-> FreshOf(ns), err |-> None,
          ns |-> [ns EXCEPT ![FreshOf(ns)] = NewNode("Domain", base_location(a.userdomain))],
          a |-> [a EXCEPT !.dom2obj = CachePut(@, a.userdomain, FreshOf(ns))]]

\* AppSyncLDAP.base_node (ldap.py:180-192) on the application object
\* and the node table: the instance cached under the current user domain,
\* or a new one stored under it.
base_node(ns, a) ==
    IF a.userdomain = None
    THEN [ok |-> FALSE, full |-> FALSE, id |-> NoNode, ns |-> ns, a |-> a,
          err |-> "AssertionError"]
    ELSE IF CacheGet(a.dom2obj, a.userdomain) # NoNode
    THEN [ok |-> TRUE, full |-> FALSE, id |-> CacheGet(a.dom2obj, a.userdomain),
          ns |-> ns, a |-> a, err |-> None]
    ELSE IF \A i \in Ids : ns[i].cls # "free"
    THEN [ok |-> FALSE, full |-> TRUE, id |-> NoNode, ns |-> ns, a |-> a, err |-> None]
    ELSE [ok |-> TRUE, full |-> FALSE, id |-> FreshOf(ns), err |-> None,
          ns |-> [ns EXCEPT ![FreshOf(ns)] = NewNode("Domain", base_location(a.userdomain))],
          a |-> [a EXCEPT !.dom2obj = CachePut(@, a.userdomain, FreshOf(ns))]]

\* The arguments of base_node: the user domain current at the call, and
\* the instances callers held for it then.
BaseArgs ==
    [start |-> NoNode, domain |-> app.userdomain,
     had |-> IF app.userdomain = None THEN {}
             ELSE { j \in held : /\ nodes[j].cls = "Domain"
                                 /\ nodes[j].location = base_location(app.userdomain) }]

\* AppSyncLDAP.set_userdomain (ldap.py:156-165)
SetUserdomain(userdomain) ==
    /\ app' = [app EXCEPT !.userdomain = userdomain]
    /\ ret' = Ret("set_userdomain", "ok", NoNode, None)
    /\ args' = NoArgs
    /\ calls' = <<>>
    /\ UNCHANGED <<nodes, held, children, pending, txnBase, backend, codec, lookups>>

\* A caller asks for the base node of the current user domain and keeps it.
BaseNode ==
    /\ LET r == base_node(nodes, app)
       IN /\ ~r.full
          /\ nodes' = r.ns
          /\ app' = r.a
          /\ held' = IF r.ok THEN held \cup {r.id} ELSE held
          /\ ret' = Ret("base_node", IF r.ok THEN "node" ELSE "error", r.id, r.err)
    /\ args' = BaseArgs
    /\ calls' = <<>>
    /\ UNCHANGED <<children, pending, txnBase, backend, codec, lookups>>

BaseNext ==
    \/ \E d \in Domains \cup {None} : SetUserdomain(d)
    \/ BaseNode
    \/ \E p \in Ids : nodes[p].cls = "Domain" /\ ChildNode(p, "resins", UuidX, "Collection")
    \/ \E i \in Ids : Release(i)

\* ------------------------------------------------- create, delete, read

\* acl_resource_class (node.py:9), what Index.resource_class returns
\* (node.py:74-78).
resource_class == "904dfdb5-6b34-3818-b580-b9a0b4f7e7a9"

\* The attribute values callers hand to create: none, or one value for
\* the list cn.  A table is a set of pairs <<name, values>>.
AttrDicts == { {}, { <<"cn", <<"a">> >> } }

\* DataSyncLDAP.create (ldap.py:252-286) on the record of an Index node
\* (Resource has a create of its own).  The assertions of lines 263-266
\* refuse a node that is created or loaded.  Lines 269-273 put the
\* object classes and the resource class in the attribute table.  Line
\* 274 then calls self.resource_insance, a name no class defines (the
\* method is resource_instance): AttributeError.  The loop over the
\* attribute values, add_s and created = True are never reached.
create(n, b, classes, attrs_dict) ==
    IF n.created \/ n.loaded
    THEN [ok |-> FALSE, n |-> n, b |-> b, err |-> "AssertionError", added |-> FALSE]
    ELSE [ok |-> FALSE, b |-> b, err |-> "AttributeError", added |-> FALSE,
          n |-> [n EXCEPT !.attrvals.objectClass = Append(classes, "resourceClassObject"),
                          !.attrvals.resourceClassUUID = resource_class]]

\* A caller creates the entry of an Index node it holds.
Create(i, attrs_dict) ==
    /\ i \in held /\ IsIndex(nodes[i])
    /\ LET r == create(nodes[i], backend, <<"reservoirCollection">>, attrs_dict)
       IN /\ nodes' = [nodes EXCEPT ![i] = r.n]
          /\ backend' = r.b
          /\ calls' = IF r.added THEN <<Call("add", i, r.ok)>> ELSE <<>>
          /\ ret' = Ret("DataSyncLDAP.create", IF r.ok THEN "ok" ELSE "error", i, r.err)
    /\ args' = DataArgs(i, None, None, None, attrs_dict)
    /\ txnBase' = IF pending = <<>> THEN backend' ELSE txnBase
    /\ UNCHANGED <<held, children, pending, codec, app, lookups>>

\* Whether the directory holds an entry below a location.
HasStoredChildren(b, location) ==
    \E l \in DOMAIN b :
        /\ Len(l) > Len(location)
        /\ SubSeq(l, Len(l) - Len(location), Len(l)) = "," \o location

\* The backend's delete(location): the entry must exist and be a leaf.
BackendDelete(b, location) ==
    IF location \notin DOMAIN b \/ HasStoredChildren(b, location)
    THEN [ok |-> FALSE, b |-> b]
    ELSE [ok |-> TRUE, b |-> [l \in DOMAIN b \ {location} |-> b[l]]]

\* A delete that leaves the loaded flag as it was.
delete_keeps_loaded(n, b) ==
    LET r == BackendDelete(b, n.location)
    IN IF ~r.ok THEN [ok |-> FALSE, n |-> n, b |-> b, err |-> "BackendError"]
       ELSE [ok |-> TRUE, b |-> r.b, err |-> None,
             n |-> [n EXCEPT !.created = FALSE, !.attrvals = NoAttrs]]

\* A delete that resets the node before it asks the backend.
delete_resets_first(n, b) ==
    LET r == BackendDelete(b, n.location)
        reset == [n EXCEPT !.created = FALSE, !.loaded = FALSE, !.attrvals = NoAttrs]
    IN IF ~r.ok THEN [ok |-> FALSE, n |-> reset, b |-> b, err |-> "BackendError"]
       ELSE [ok |-> TRUE, b |-> r.b, err |-> None, n |-> reset]

\* DataSyncLDAP.delete (ldap.py:288-299) on the record of an Index node
\* (Resource has a delete of its own): the backend is asked first, and
\* when it raises nothing of the node changes.
delete(n, b) ==
    LET r == BackendDelete(b, n.location)
    IN IF ~r.ok THEN [ok |-> FALSE, n |-> n, b |-> b, err |-> "BackendError"]
       ELSE [ok |-> TRUE, b |-> r.b, err |-> None,
             n |-> [n EXCEPT !.created = FALSE, !.loaded = FALSE, !.attrvals = NoAttrs]]

\* A caller deletes the entry of an Index node it holds.
Delete(i) ==
    /\ i \in held /\ IsIndex(nodes[i])
    /\ LET r == delete(nodes[i], backend)
       IN /\ nodes' = [nodes EXCEPT ![i] = r.n]
          /\ backend' = r.b
          /\ calls' = <<Call("delete", i, r.ok)>>
          /\ ret' = Ret("DataSyncLDAP.delete", IF r.ok THEN "ok" ELSE "error", i, r.err)
    /\ args' = DataArgs(i, None, None, None, {})
    /\ txnBase' = IF pending = <<>> THEN backend' ELSE txnBase
    /\ UNCHANGED <<held, children, pending, codec, app, lookups>>

\* DataSyncLDAP.get_value (ldap.py:334-343) on a node record.  The
\* parameter is named varnm; line 340 evaluates var, which is no
\* parameter, local or global: NameError, before the assertion is
\* decided and before any load.
get_value(n, b, varnm, dflt) == [ok |-> FALSE, n |-> n, err |-> "NameError", val |-> None]

\* DataSyncLDAP.get_list (ldap.py:363-372) on a node record.  The
\* parameter is named listnm; line 369 evaluates var: NameError.
get_list(n, b, listnm) == [ok |-> FALSE, n |-> n, err |-> "NameError", val |-> <<>>]

\* A caller reads a singular value of a node it holds.
GetValue(i, varnm, dflt) ==
    /\ i \in held
    /\ LET r == get_value(nodes[i], backend, varnm, dflt)
       IN /\ nodes' = [nodes EXCEPT ![i] = r.n]
          /\ ret' = [op |-> "get_value", kind |-> IF r.ok THEN "value" ELSE "error",
                     node |-> i, err |-> r.err, val |-> r.val]
    /\ args' = DataArgs(i, varnm, None, dflt, {})
    /\ calls' = <<>>
    /\ UNCHANGED <<held, children, pending, txnBase, backend, codec, app, lookups>>

\* A caller reads a list of a node it holds.
GetList(i, listnm) ==
    /\ i \in held
    /\ LET r == get_list(nodes[i], backend, listnm)
       IN /\ nodes' = [nodes EXCEPT ![i] = r.n]
          /\ ret' = [op |-> "get_list", kind |-> IF r.ok THEN "value" ELSE "error",
                     node |-> i, err |-> r.err, val |-> r.val]
    /\ args' = DataArgs(i, listnm, None, None, {})
    /\ calls' = <<>>
    /\ UNCHANGED <<held, children, pending, txnBase, backend, codec, app, lookups>>

\* The values callers put in and take out of the list cn.
ListValues == {None, "a", "b"}

DataNext ==
    \/ ChildNode(Root, "resins", UuidX, "Collection")
    \/ \E i \in Ids : LoadVars(i)
    \/ \E i \in Ids, d \in AttrDicts : Create(i, d)
    \/ \E i \in Ids : Delete(i)
    \/ \E i \in Ids, varnm \in {"resins", "cn"}, dflt \in {None, UuidY} : GetValue(i, varnm, dflt)

FlagsNext ==
    \/ ChildNode(Root, "resins", UuidX, "Collection")
    \/ \E p \in Ids : ChildNode(p, "documentIdentifier", "a", "Resource")
    \/ \E i \in Ids : LoadVars(i)
    \/ \E i \in Ids : ResourceCreate(i)
    \/ \E i \in Ids : ResourceDelete(i)
    \/ \E i \in Ids, d \in AttrDicts : Create(i, d)

ListNext ==
    \/ ChildNode(Root, "resins", UuidX, "Collection")
    \/ \E i \in Ids : LoadVars(i)
    \/ \E i \in Ids, listnm \in {"cn", "resins"} : GetList(i, listnm)
    \/ \E i \in Ids, oldval \in ListValues, newval \in ListValues :
            SetListElem(i, "cn", oldval, newval)

AccessNext ==
    \/ \E u \in Uuids : ChildNode(Root, "resins", u, "Collection")
    \/ \E p \in Ids, d \in {"a", "z"} : ChildNode(p, "documentIdentifier", d, "Resource")
    \/ \E i \in Ids, flags \in FlagStrings : AccessRequire(i, flags)
    \/ \E i \in Ids : ResourceCreate(i)
    \/ \E i \in Ids : ResourceDelete(i)

IndexNext ==
    \/ \E i \in Ids, name \in {None, "a", "b"}, dflt \in {None, UuidY} :
            GetIndexEntry(i, name, dflt)
    \/ \E i \in Ids, name \in {None, "a", "b"}, u \in Uuids \cup {None} :
            SetIndexEntry(i, name, u)

Next == ChildrenNext \/ ResourceNext \/ RaceNext \/ BaseNext \/ DataNext \/ ListNext \/ AccessNext \/ IndexNext \/ CacheNext \/ WriteNext \/ TxnNext \/ WalkNext \/ CodecNext

Spec == Init /\ [][Next]_vars

\* The identity cache alone.
SpecCache == Init /\ [][CacheNext]_vars

\* The transaction manager with the nodes it is handed.
SpecTxn == Init /\ [][TxnNext]_vars

\* The transaction manager with callers that also write to nodes.
WriteTxnNext ==
    \/ ChildNode(Root, "resins", UuidY, "Collection")
    \/ WriteNext
    \/ \E i \in Ids : Register(i)
    \/ Commit(0, 0)
    \/ Abort

SpecWrite == Init /\ [][WriteTxnNext]_vars

\* Nodes created, deleted, loaded and read one call at a time.
SpecData == Init /\ [][DataNext]_vars

\* The lists of a node edited and read one call at a time.
SpecList == Init /\ [][ListNext]_vars

\* Nodes loaded and created over a directory that stores a Resource.
SpecFlags == InitStored /\ [][FlagsNext]_vars

\* Children found by search and children looked up by key.
SpecChildren == Init /\ [][ChildrenNext]_vars

\* Resources asked for through their Collection and through a walk.
SpecResource == Init /\ [][ResourceNext]_vars

\* Threads looking children of the Domain up at the same time.
SpecRace == Init /\ [][RaceNext]_vars

\* Base nodes of user domains the application is switched between.
SpecBase == Init /\ [][BaseNext]_vars

\* Instances held by callers and by the transaction, and let go.
HoldNext ==
    \/ \E u \in Uuids : ChildNode(Root, "resins", u, "Collection")
    \/ \E i \in Ids : Release(i)
    \/ \E i \in Ids : \E cmd \in Commands(nodes[i].location) : DeferWrite(i, cmd)
    \/ Commit(0, 0)
    \/ Abort

SpecHold == Init /\ [][HoldNext]_vars

\* Collections and Resources under access checks.
SpecAccess == Init /\ [][AccessNext]_vars

\* An Index over a directory that holds entries already.
SpecIndex == InitIndex /\ [][IndexNext]_vars

\* Index entries and the path walk.
SpecWalk == Init /\ [][WalkNext]_vars

\* The path walk over entries set under one name.
WalkEntryNext ==
    \/ \E i \in Ids, u \in Uuids : SetIndexEntry(i, "a", u)
    \/ \E i \in Ids, path \in Paths, res_name \in {None, "z"}, maybe_res \in BOOLEAN :
            Walk(i, path, res_name, maybe_res)

SpecWalkEntry == Init /\ [][WalkEntryNext]_vars

\* ----------------------------------------------------------------- claims

\* What a call was and on which node, leaving out how it ended.
OpNode(c) == <<c.op, c.node>>

NoDup(s) == \A i, j \in 1 .. Len(s) : s[i] = s[j] => i = j

\* The index the directory stores for a location.
StoredIndex(b, loc) ==
    IF loc \in DOMAIN b
    THEN { idxe_groups(e) : e \in { t \in b[loc].collectionRef : idxe_re(t) } }
    ELSE {}

\* The location the first k steps of a path lead to from loc by the stored
\* index entries, None when one of them has no entry.
RECURSIVE Resolve(_, _, _, _)
Resolve(b, loc, path, k) ==
    IF k = 0 THEN loc
    ELSE LET prev == Resolve(b, loc, path, k - 1)
         IN IF prev = None \/ ~Has(StoredIndex(b, prev), path[k]) THEN None
            ELSE collection_dn(Get(StoredIndex(b, prev), path[k], None))

\* The last walk started from an instance that is still there.
Walked == ret.op = "walk" /\ args.start # NoNode

WalkedFrom == nodes[args.start].location

\* C1: a child lookup that returns an instance returns the one instance
\* for that address: no other instance a caller still holds has the same
\* location.
C1_IdentityInvariant ==
    (ret.op = "child_node" /\ ret.kind = "node") =>
        \A j \in held : nodes[j].location = nodes[ret.node].location => j = ret.node

\* C2: a commit that fails at the k-th pending node has called sync on the
\* nodes 1..k in order, then sync(reverse) on exactly the nodes k-1, ..., 1
\* in that order, leaves nothing pending and reports the failure.
C2_CommitAtomicity ==
    [][(ret'.op = "commit" /\ ret'.kind = "error") =>
          LET k == ret'.node
          IN /\ k \in 1 .. Len(pending)
             /\ Len(calls') = 2 * k - 1
             /\ \A i \in 1 .. k : calls'[i] = Call("sync", pending[i], i # k)
             /\ \A j \in 1 .. k - 1 : OpNode(calls'[k + j]) = <<"sync_reverse", pending[k - j]>>
             /\ pending' = <<>>]_vars

\* C2 witness: a commit failed at the third of three pending nodes and
\* rolled two back.
C2_Witness ==
    /\ ret.op = "commit" /\ ret.kind = "error" /\ ret.node = 3
    /\ Len(calls) = 5 /\ calls[4].op = "sync_reverse" /\ calls[5].op = "sync_reverse"

\* C3: a commit in which every sync succeeds has called sync on the pending
\* nodes in registration order, then clear_cache on each of them once in
\* registration order, leaves nothing pending and reports success.
C3_CommitSuccess ==
    [][(ret'.op = "commit" /\ ret'.kind = "ok") =>
          LET n == Len(pending)
          IN /\ Len(calls') = 2 * n
             /\ \A i \in 1 .. n : calls'[i] = Call("sync", pending[i], TRUE)
             /\ \A i \in 1 .. n : calls'[n + i] = Call("clear_cache", pending[i], TRUE)
             /\ pending' = <<>>]_vars

\* C3 witness: a commit of three pending nodes succeeded.
C3_Witness ==
    /\ ret.op = "commit" /\ ret.kind = "ok"
    /\ Len(calls) = 6 /\ calls[3].op = "sync" /\ calls[4].op = "clear_cache"

\* C4: after a commit that fails at the k-th node, with every reverse sync
\* succeeding, the backend entry of each of the nodes 1..k-1 is what it was
\* before the commit started.
C4_ReverseRestores ==
    [][(/\ ret'.op = "commit" /\ ret'.kind = "error"
        /\ \A c \in Range(calls') : c.op = "sync_reverse" => c.ok) =>
          \A i \in 1 .. ret'.node - 1 :
              backend'[nodes[pending[i]].location] = backend[nodes[pending[i]].location]]_vars

\* C4 witness: a failed commit rolled back, successfully, a node whose
\* command set an attribute and a node whose command inserted in a list.
C4_Witness ==
    /\ ret.op = "commit" /\ ret.kind = "error"
    /\ \A c \in Range(calls) : c.op = "sync_reverse" => c.ok
    /\ \E c \in Range(calls) : c.op = "sync_reverse" /\ nodes[c.node].cmd.kind = "set"
    /\ \E c \in Range(calls) : c.op = "sync_reverse" /\ nodes[c.node].cmd.kind = "insert"

C6_RegisterIdempotent ==
    [][ret'.op = "register" =>
          /\ pending' = IF ret'.node \in Range(pending) THEN pending
                        ELSE Append(pending, ret'.node)
          /\ NoDup(pending')]_vars

\* C6 witness: the first of three pending nodes was registered again.
C6_Witness ==
    ret.op = "register" /\ Len(pending) = 3 /\ ret.node = pending[1]

\* C7: set_value and set_list_elem that return have registered the node
\* with the transaction and issued no backend modify; a modify is only
\* issued by commit.
C7_DeferredWrites ==
    /\ (\E c \in Range(calls) : c.op = "modify") => ret.op = "commit"
    /\ (ret.op \in {"set_value", "set_list_elem"} /\ ret.kind = "ok") =>
            ret.node \in Range(pending)

\* C8: a walk of a non-empty path of which every step has an entry in the
\* index reached by the steps before it returns the Collection the last
\* entry identifies.
C8_WalkResolves ==
    (/\ Walked /\ args.res_name = None /\ Len(args.path) >= 1
     /\ Resolve(backend, WalkedFrom, args.path, Len(args.path)) # None) =>
        /\ ret.kind = "node"
        /\ nodes[ret.node].cls = "Collection"
        /\ nodes[ret.node].location = Resolve(backend, WalkedFrom, args.path, Len(args.path))

\* C9: a walk returns none, without an error, when a step other than the
\* last has no entry, and when the last step has none and maybe_res is
\* false.
C9_WalkReturnsNone ==
    (/\ Walked
     /\ \E k \in 1 .. Len(args.path) :
           /\ Resolve(backend, WalkedFrom, args.path, k - 1) # None
           /\ Resolve(backend, WalkedFrom, args.path, k) = None
           /\ k < Len(args.path) \/ ~args.maybe_res) =>
        ret.kind = "none"

\* C10: a walk with maybe_res and no res_name, of a path whose steps but
\* the last resolve to a collection and whose last step has no entry,
\* returns the Resource named by the last step under that collection.
C10_TailFallback ==
    (/\ Walked /\ args.maybe_res /\ args.res_name = None /\ Len(args.path) >= 2
     /\ Resolve(backend, WalkedFrom, args.path, Len(args.path) - 1) # None
     /\ Resolve(backend, WalkedFrom, args.path, Len(args.path)) = None) =>
        /\ ret.kind = "node"
        /\ nodes[ret.node].cls = "Resource"
        /\ nodes[ret.node].location =
              child_location(Resolve(backend, WalkedFrom, args.path, Len(args.path) - 1),
                             "documentIdentifier", args.path[Len(args.path)])

\* C11: a walk with a res_name, of a non-empty path that resolves to a
\* Collection, returns the Resource of that name under that Collection.
C11_ResourceUnderFinal ==
    (/\ Walked /\ args.res_name # None /\ Len(args.path) >= 1
     /\ Resolve(backend, WalkedFrom, args.path, Len(args.path)) # None) =>
        /\ ret.kind = "node"
        /\ nodes[ret.node].cls = "Resource"
        /\ nodes[ret.node].location =
              child_location(Resolve(backend, WalkedFrom, args.path, Len(args.path)),
                             "documentIdentifier", args.res_name)

\* C12: a walk of the empty path with maybe_res and no res_name returns the
\* Index it started from, never a Resource.
C12_EmptyPathReturnsSelf ==
    (Walked /\ args.path = <<>> /\ args.maybe_res /\ args.res_name = None) =>
        /\ ret.kind = "node"
        /\ ret.node = args.start
        /\ IsIndex(nodes[ret.node])

\* C12 witness: such a walk was made from a Collection and returned.
C12_Witness ==
    /\ Walked /\ args.path = <<>> /\ args.maybe_res /\ args.res_name = None
    /\ ret.kind = "node" /\ nodes[args.start].cls = "Collection"

\* C13: with maybe_res and no res_name, a walk of a non-empty path that
\* resolves returns the Collection it resolves to; it returns a Resource
\* only when the last step has no entry.
C13_IndexPrecedence ==
    (Walked /\ args.maybe_res /\ args.res_name = None /\ Len(args.path) >= 1) =>
        /\ Resolve(backend, WalkedFrom, args.path, Len(args.path)) # None =>
              /\ ret.kind = "node"
              /\ nodes[ret.node].cls = "Collection"
              /\ nodes[ret.node].location =
                    Resolve(backend, WalkedFrom, args.path, Len(args.path))
        /\ (ret.kind = "node" /\ nodes[ret.node].cls = "Resource") =>
              Resolve(backend, WalkedFrom, args.path, Len(args.path)) = None

\* C14: parsing the stored form of an entry gives back the identifier and
\* the name it was made from, and the stored form of an entry without a
\* name is the identifier alone.
C14_IndexRoundTrip ==
    /\ codec.stage = "decoded" =>
          codec.matched /\ codec.groups = <<codec.name, codec.uuid>>
    /\ (codec.stage \in {"encoded", "decoded"} /\ codec.name = None) =>
          codec.entry = codec.uuid

\* C14 witness: an entry whose name begins with the separator and goes on
\* with an identifier character was stored and parsed.
C14_Witness ==
    /\ codec.stage = "decoded" /\ codec.matched
    /\ codec.uuid = UuidX /\ codec.name = " 0" /\ codec.entry = "0a  0"

\* C15: get_index_entry on an Index returns the identifier of the entry the
\* directory stores for the name (the absent name being the default
\* entry), and the default given for a name it stores no entry for.
C15_LoadedIndexLookup ==
    ret.op = "get_index_entry" =>
        /\ ret.kind = "value"
        /\ ret.val = Get(StoredIndex(backend, nodes[args.start].location),
                         args.name, args.dflt)

\* What get_index_entry would return now for a name on the instance the
\* last index call was made on (None for the default).
WouldGet(name) == get_index_entry(nodes[args.start], backend, name, None)

\* C16: set_index_entry with an identifier succeeds, and get_index_entry
\* then returns that identifier for the name, the absent name included.
C16_SetThenGet ==
    (ret.op = "set_index_entry" /\ args.uuid # None) =>
        /\ ret.kind = "ok"
        /\ WouldGet(args.name).ok
        /\ WouldGet(args.name).val = args.uuid

\* C17: set_index_entry with no identifier, for a name the Index has an
\* entry for, succeeds; get_index_entry then returns the default and the
\* directory stores no entry for the name any more.
C17_SetNoneRemoves ==
    (ret.op = "set_index_entry" /\ args.uuid = None /\ args.had) =>
        /\ ret.kind = "ok"
        /\ WouldGet(args.name).val = None
        /\ ~Stored(backend, nodes[args.start].location, args.name)

\* C18: access_require succeeds exactly when every flag asked for is in
\* access_rights, and otherwise fails with AccessDenied naming exactly the
\* flags asked for that are not in the rights.
C18_AccessGating ==
    ret.op = "access_require" =>
        IF Range(args.flags) \subseteq access_rights
        THEN ret.kind = "ok"
        ELSE /\ ret.kind = "error"
             /\ ret.err = "AccessDenied"
             /\ ret.missing = Range(args.flags) \ access_rights

\* C19: Resource.create with 'c' in the rights succeeds, sets created and
\* registers the Resource with the transaction; without 'c' it fails with
\* AccessDenied, leaves created false and registers nothing.
C19_CreateRegisters ==
    ret.op = "create" =>
        IF "c" \in access_rights
        THEN /\ ret.kind = "ok"
             /\ nodes[ret.node].created
             /\ ret.node \in Range(pending)
        ELSE /\ ret.kind = "error" /\ ret.err = "AccessDenied"
             /\ ~nodes[ret.node].created
             /\ ret.node \notin Range(pending)

C22_CreateAddsOnce ==
    ret.op = "DataSyncLDAP.create" =>
        IF args.was
        THEN ret.kind = "error" /\ ret.err = "AlreadyExists" /\ calls = <<>>
        ELSE /\ Len(calls) = 1 /\ calls[1].op = "add" /\ calls[1].node = ret.node
             /\ calls[1].ok =>
                  /\ ret.kind = "ok"
                  /\ nodes[ret.node].created
                  /\ nodes[ret.node].location \in DOMAIN backend
                  /\ \A kv \in args.attrs :
                        Range(kv[2]) \subseteq backend[nodes[ret.node].location][kv[1]]

C24_GetValueLoads ==
    ret.op = "get_value" =>
        IF args.name \in atnm_one(nodes[ret.node].cls)
        THEN (~args.was /\ nodes[ret.node].location \in DOMAIN backend) =>
                /\ ret.kind = "value"
                /\ nodes[ret.node].loaded
                /\ ret.val = (IF backend[nodes[ret.node].location][args.name] # None
                              THEN backend[nodes[ret.node].location][args.name]
                              ELSE args.newval)
        ELSE /\ ret.kind = "error" /\ ret.err = "UnknownAttribute"
             /\ nodes[ret.node].loaded = args.wasLoaded

\* C25: on a loaded node set_list_elem(name, old, new) with old absent
\* only inserts new, with new absent only removes old, with both
\* replaces old by new; the other elements and the other attributes stay,
\* and get_list(name) returns the list the node holds.
C25_ListElementEdit ==
    /\ (/\ ret.op = "set_list_elem" /\ args.wasLoaded
        /\ args.name \in atnm_lst(nodes[ret.node].cls)
        /\ (args.oldval = None \/ args.oldval \in Range(args.before[args.name]))
        /\ (args.newval = None \/ args.newval \notin Range(args.before[args.name]))) =>
            /\ ret.kind = "ok"
            /\ Range(nodes[ret.node].attrvals[args.name]) =
                    (Range(args.before[args.name]) \ {args.oldval})
                        \cup (IF args.newval = None THEN {} ELSE {args.newval})
            /\ \A a \in DOMAIN NoAttrs \ {args.name} :
                    nodes[ret.node].attrvals[a] = args.before[a]
    /\ (ret.op = "get_list" /\ args.name \in atnm_lst(nodes[ret.node].cls)
            /\ args.wasLoaded) =>
            /\ ret.kind = "value"
            /\ ret.val = nodes[ret.node].attrvals[args.name]

\* C26: the cache keeps no instance alive.  After every step an instance
\* that neither a caller nor the transaction holds is gone and no cache
\* yields it, and a lookup that returns an instance nobody held before
\* returns a freshly constructed node.
C26_CacheHoldsWeakly ==
    [][/\ \A i \in Ids \ Strong(held', pending') :
             /\ nodes'[i] = FreeNode
             /\ \A p \in Ids : \A e \in children'[p] : e[2] # i
       /\ (ret'.op = "child_node" /\ ret'.kind = "node"
              /\ ret'.node \notin Strong(held, pending)) =>
             nodes'[ret'.node] =
                NewNode(nodes'[ret'.node].cls, nodes'[ret'.node].location)]_vars

\* C26 witness: a caller had let go of an instance with a pending
\* change, abort released the transaction's hold on it, and the instance
\* is gone while another one is still held.
C26_Witness ==
    /\ ret.op = "abort" /\ pending = <<>>
    /\ \E k \in 1 .. Len(calls) : nodes[calls[k].node] = FreeNode
    /\ \E i \in Ids \ {Root} : i \in held

C27_ConcurrentLookups ==
    /\ \A t, u \in Threads :
          (/\ lookups[t].pc = "done" /\ lookups[u].pc = "done"
           /\ lookups[t].p = lookups[u].p
           /\ lookups[t].varnm = lookups[u].varnm
           /\ lookups[t].value = lookups[u].value) => lookups[t].obj = lookups[u].obj
    /\ \A i, j \in held : nodes[i].location = nodes[j].location => i = j

\* C29: the Resource a Collection gives for a document identifier has the
\* address documentIdentifier=<docId> under the Collection's own address
\* resins=<collectionId>,<domainBase>; so has the Resource a walk with a
\* res_name gives for a path that resolves to that Collection; and no
\* other instance a caller holds has that address.
C29_ResourceAddress ==
    /\ ret.op = "Collection.resource" =>
          /\ ret.kind = "node"
          /\ nodes[ret.node].cls = "Resource"
          /\ nodes[args.start].location = collection_dn(nodes[args.start].uuid)
          /\ nodes[ret.node].location =
                child_location(nodes[args.start].location, "documentIdentifier", args.name)
    /\ (/\ Walked /\ args.res_name # None /\ Len(args.path) = 1
        /\ Resolve(backend, WalkedFrom, args.path, 1) # None) =>
          /\ ret.kind = "node"
          /\ nodes[ret.node].cls = "Resource"
          /\ nodes[ret.node].location =
                child_location(Resolve(backend, WalkedFrom, args.path, 1),
                               "documentIdentifier", args.res_name)
    /\ (ret.kind = "node" /\ ret.op \in {"Collection.resource", "walk"}) =>
          \A j \in held : nodes[j].location = nodes[ret.node].location => j = ret.node


\* C30: a node with pending changes stays alive from its registration until
\* commit or abort completes: it keeps its pending change, and a child
\* lookup of its key returns that same instance, whether or not a caller
\* holds it; once commit or abort has completed the transaction holds no
\* node.
C30_PendingStaysAlive ==
    /\ \A k \in 1 .. Len(pending) :
          /\ nodes[pending[k]].cls # "free"
          /\ nodes[pending[k]].cmd.kind # "none"
          /\ (ret.op = "child_node" /\ ret.kind = "node"
              /\ nodes[ret.node].location = nodes[pending[k]].location) =>
                ret.node = pending[k]
    /\ ret.op \in {"commit", "abort"} => pending = <<>>

\* C31: children() and child_node() share one cache.  A children() search
\* returns, for every value whose child a caller already holds, an
\* instance the caller holds for that address; and a child_node() lookup
\* made right after a children() search, for a value whose instance the
\* caller kept, returns that kept instance.
C31_ChildrenShareCache ==
    [][ /\ (ret'.op = "children" /\ ret'.kind = "ok") =>
            \A e \in args'.retval :
                LET loc == child_location(nodes[args'.start].location, args'.varnm, e[1])
                IN (\E j \in held : nodes[j].location = loc) =>
                      (e[2] \in held /\ nodes[e[2]].location = loc)
        /\ (ret.op = "children" /\ ret'.op = "child_node" /\ ret'.kind = "node") =>
            \A e \in args.retval :
                (/\ e[2] \in held
                 /\ nodes'[ret'.node].location =
                      child_location(nodes[args.start].location, args.varnm, e[1])
                 /\ nodes[e[2]].location = nodes'[ret'.node].location)
                    => ret'.node = e[2]
      ]_vars

\* C32: after any sequence of set_index_entry calls the Index holds at most
\* one entry per name, in memory and in the list the directory stores; a
\* set_index_entry with an identifier, on a name the directory stored an
\* entry for, succeeds and leaves exactly the entry encode(id, name)
\* stored for that name.
C32_OneEntryPerName ==
    /\ \A l \in DOMAIN backend : \A e, f \in backend[l].collectionRef :
          (idxe_re(e) /\ idxe_re(f) /\ idxe_groups(e)[1] = idxe_groups(f)[1]) => e = f
    /\ \A i \in held : \A e, f \in nodes[i].index : e[1] = f[1] => e = f
    /\ (ret.op = "set_index_entry" /\ args.uuid # None /\ args.had) =>
          /\ ret.kind = "ok"
          /\ \A e \in backend[nodes[args.start].location].collectionRef :
                (idxe_re(e) /\ idxe_groups(e)[1] = args.name) =>
                    e = Encode(args.uuid, args.name)
          /\ Encode(args.uuid, args.name) \in backend[nodes[args.start].location].collectionRef

====
